---- MODULE Spec2Model ----
(***************************************************************************)
(* Model of the e-mail Telegram bot of src/main.go: the per-user           *)
(* conversation state machine of main's update loop and the classification *)
(* of the Unisender reply.                                                 *)
(*                                                                         *)
(* Texts are sequences of characters, each a string (a character outside   *)
(* ASCII by its code point), so that strings.TrimSpace is computed and not *)
(* assumed.  The Russian literals of the source are written in Latin       *)
(* transliteration (the module is ASCII only).                             *)
(*                                                                         *)
(* A message is answered in the chat it was written in                     *)
(* (update.Message.Chat.ID), the record is that of its writer              *)
(* (update.Message.From.ID).  In Spec the two users write in one group     *)
(* chat, in the other specifications each user writes in the private chat  *)
(* with the bot.                                                           *)
(*                                                                         *)
(* Specifications: Spec (two users, no records at first), SpecCycles and   *)
(* SpecLetters (one user, several letters), SpecTwoUsers and SpecBoth (two *)
(* users, without and with records at first), SpecQueue (two users, the    *)
(* updates channel with the updates that wait in it), SpecSteps (the       *)
(* await_sender case statement by statement), SpecLive (two users, every   *)
(* call that leaves the process a step of its own, weak fairness of the    *)
(* loop's own steps only).                                                 *)
(***************************************************************************)
EXTENDS Integers, Sequences, FiniteSets, TLC

VARIABLES
    states,   \* var states map[int64]*UserState; NoState = no entry
    pc,       \* position of the update loop: "recv" (range updates),
              \* "interim" (in the await_sender case, the interim message
              \* handed to bot.Send at line 242, nothing posted yet) or
              \* "mailer" (blocked in http.PostForm of SendEmailViaUnisender);
              \* SpecSteps has the other positions between the statements of
              \* the await_sender case too, SpecLive also "replying" (in the
              \* bot.Send that ends a turn of the loop)
    last,     \* user of the message handled last (NoUser: none yet)
    hist,     \* per user, what the bot was seen to do on each of the user's
              \* messages: the raw text, the phase before and after, the chat
              \* messages sent, the e-mail requests posted, the provider reply
    left,     \* number of updates the updates channel still delivers
    updates   \* the updates channel of bot.GetUpdatesChan: the updates that
              \* wait in it, in arrival order, in the specification that
              \* follows them (SpecQueue); the other specifications draw an
              \* update when the loop takes it and do not follow the channel

vars == <<states, pc, last, hist, left, updates>>

----------------------------------------------------------------------------
(* Bounds of the model *)

\* number of updates taken from the updates channel in a run
MaxUpdates == 5
\* the same, for the one-user specification SpecCycles
MaxCycleUpdates == 8
\* the same, for the two-user specification SpecTwoUsers
MaxTwoUserUpdates == 6

----------------------------------------------------------------------------
(* Texts *)

Users == {1, 2}
NoUser == 0
NoState == [State |-> "none"]

\* const NEW_LETTER_BUTTON_TEXT = "Novoe Pis'mo" (has an inner space)
NEW_LETTER_BUTTON_TEXT == <<"N","o","v","o","e"," ","P","i","s","m","o">>
START_COMMAND == <<"/","s","t","a","r","t">>

\* unicode.IsSpace, the white space strings.TrimSpace cuts off: in Latin-1
\* '\t', '\n', '\v', '\f', '\r', ' ', U+0085 (NEL), U+00A0 (NBSP), and
\* beyond it the characters of the White_Space property.  A character that
\* has no ASCII form is written by its code point.
SpaceChars ==
    { "\t", "\n", "U+000B", "\f", "\r", " ", "U+0085", "U+00A0",
      "U+1680", "U+2000", "U+2001", "U+2002", "U+2003", "U+2004",
      "U+2005", "U+2006", "U+2007", "U+2008", "U+2009", "U+200A",
      "U+2028", "U+2029", "U+202F", "U+205F", "U+3000" }

IsSpace(c) == c \in SpaceChars

RECURSIVE TrimLeft(_)
TrimLeft(s) ==
    IF s = <<>> THEN s
    ELSE IF IsSpace(Head(s)) THEN TrimLeft(Tail(s)) ELSE s

RECURSIVE TrimRight(_)
TrimRight(s) ==
    IF s = <<>> THEN s
    ELSE IF IsSpace(s[Len(s)]) THEN TrimRight(SubSeq(s, 1, Len(s) - 1)) ELSE s

\* strings.TrimSpace
TrimSpace(s) == TrimRight(TrimLeft(s))

\* raw texts of inbound messages (update.Message.Text)
RawLabelPadded == <<" ", "U+00A0">> \o NEW_LETTER_BUTTON_TEXT \o <<"\f", " ">>
RawBPadded == <<"\f", "b", "U+2003">>
RawStartPadded == <<"\f">> \o START_COMMAND
RawTexts == { NEW_LETTER_BUTTON_TEXT, RawLabelPadded, START_COMMAND, <<>> }
\* raw texts of the one-user specification
CycleTexts == { NEW_LETTER_BUTTON_TEXT, RawStartPadded, RawBPadded }

----------------------------------------------------------------------------
(* Configuration (secrets), fixed at startup *)

UnisenderAPIKey == "api-key"
TargetEmail == "target@example.org"
SenderEmail == "sender@example.org"

----------------------------------------------------------------------------
(* Chat messages *)

\* initialKeyboard: reply keyboard with the one "Novoe Pis'mo" button
InitialKeyboard == [kind |-> "keyboard", button |-> NEW_LETTER_BUTTON_TEXT]
RemoveKeyboard == [kind |-> "remove"]
NoMarkup == [kind |-> "none"]

\* tgbotapi.NewMessage(chatID, text) with ReplyMarkup; text is the list of
\* the parts the source concatenates
NewMessage(chat, text, markup) == [to |-> chat, text |-> text, markup |-> markup]

Lit(s) == [lit |-> s]
FmtD(n) == [d |-> n]          \* %d of an int64
FmtS(s) == [s |-> s]          \* %s of a string
FmtV(e) == [v |-> e]          \* %v of an error

GreetingText == <<Lit("Privet! Nazhmite knopku 'Novoe Pis'mo', chtoby nachat' otpravku.")>>
RepromptText == <<Lit("Pozhalujsta, nachnite s komandy /start ili nazhmite 'Novoe Pis'mo'.")>>
AskSubjectText == <<Lit("Vvedite temu pis'ma.")>>
AskBodyText == <<Lit("Vvedite tekst pis'ma.")>>
AskSenderText == <<Lit("Ukazhite imja otpravitelja.")>>
SendingText == <<Lit("Otpravljaju pis'mo...")>>
AnotherLetterSuffix == Lit("\nHotite otpravit' eshhjo odno pis'mo? Nazhmite 'Novoe Pis'mo'.")

----------------------------------------------------------------------------
(* JSON values, as encoding/json sees them *)

JNull == [t |-> "null"]
JInt(n) == [t |-> "int", n |-> n]      \* a number literal that is an int64
JFrac == [t |-> "frac"]                \* any other number literal (1.5, 1e3)
JStr(s) == [t |-> "str", s |-> s]
JBool == [t |-> "bool"]
JArr(a) == [t |-> "arr", a |-> a]
JObj(m) == [t |-> "obj", m |-> m]      \* m: the members, in the order of the text
Member(name, value) == [name |-> name, value |-> value]
NotJSON == [t |-> "invalid"]           \* a body that is no JSON text
Absent == [t |-> "absent"]             \* a json.RawMessage never assigned (nil)

\* what http.PostForm gives back
ConnFail == [http |-> "error"]
HttpBody(j) == [http |-> "ok", body |-> j]
NoReply == [http |-> "none"]

Nil == [nil |-> TRUE]
Errorf(msg, cause) == [msg |-> msg, cause |-> cause]

\* type UnisenderResponse struct { Result json.RawMessage; Error string }
UnisenderResponse(result, error) == [Result |-> result, Error |-> error]

\* the keys of the struct tags json:"result" and json:"error,omitempty"
KeyResult == <<"r","e","s","u","l","t">>
KeyError == <<"e","r","r","o","r">>

UpperCase ==
    <<"A","B","C","D","E","F","G","H","I","J","K","L","M",
      "N","O","P","Q","R","S","T","U","V","W","X","Y","Z">>
LowerCase ==
    <<"a","b","c","d","e","f","g","h","i","j","k","l","m",
      "n","o","p","q","r","s","t","u","v","w","x","y","z">>

\* encoding/json takes a member for a field when its name equals the key
\* under Unicode simple case folding: the two cases of a letter, and with
\* them the long s (U+017F) for s and the Kelvin sign (U+212A) for k
FoldChar(c) ==
    IF \E i \in 1..26 : UpperCase[i] = c
    THEN LowerCase[CHOOSE i \in 1..26 : UpperCase[i] = c]
    ELSE IF c = "U+017F" THEN "s"
    ELSE IF c = "U+212A" THEN "k"
    ELSE c
FoldName(n) == [i \in 1..Len(n) |-> FoldChar(n[i])]

\* the members of an object stored one after the other into the struct:
\* a "result" member is kept raw (a null too), an "error" member sets Error
\* when it is a string, leaves it when it is null and is a type error
\* otherwise (decoding goes on, the error is returned at the end); a later
\* member of the same name overwrites an earlier one; other members are
\* skipped
RECURSIVE DecodeMembers(_, _)
DecodeMembers(m, acc) ==
    IF m = <<>> THEN acc
    ELSE LET h == Head(m)
             f == FoldName(h.name)
             next ==
                IF f = KeyResult THEN [acc EXCEPT !.Result = h.value]
                ELSE IF f = KeyError
                THEN IF h.value.t = "str" THEN [acc EXCEPT !.Error = h.value.s]
                     ELSE IF h.value.t = "null" THEN acc
                     ELSE [acc EXCEPT !.bad = TRUE]
                ELSE acc
         IN  DecodeMembers(Tail(m), next)

\* json.NewDecoder(resp.Body).Decode(&result) into a zero UnisenderResponse:
\* null leaves the struct untouched, an object fills it member by member,
\* anything else is an error.
DecodeResponse(j) ==
    CASE j.t = "null" -> [err |-> Nil, val |-> UnisenderResponse(Absent, "")]
      [] j.t = "obj" ->
            LET d == DecodeMembers(j.m, [Result |-> Absent, Error |-> "", bad |-> FALSE])
            IN  IF ~d.bad
                THEN [err |-> Nil, val |-> UnisenderResponse(d.Result, d.Error)]
                ELSE [err |-> [cause |-> "json: cannot unmarshal into Go struct field"],
                      val |-> UnisenderResponse(d.Result, d.Error)]
      [] OTHER -> [err |-> [cause |-> "json: cannot decode body"],
                   val |-> UnisenderResponse(Absent, "")]

\* mutant of EmailRequest: subject and body change places
EmailRequestSwapped(apiKey, targetEmail, senderEmail, subject, body, senderName) ==
    [ format |-> "json", api_key |-> apiKey, sender_name |-> senderName,
      sender_email |-> senderEmail, email |-> targetEmail,
      subject |-> body, body |-> subject,
      list_id |-> "1", error_checking |-> "1" ]

\* the url.Values posted to https://api.unisender.com/ru/api/sendEmail
EmailRequest(apiKey, targetEmail, senderEmail, subject, body, senderName) ==
    [ format |-> "json", api_key |-> apiKey, sender_name |-> senderName,
      sender_email |-> senderEmail, email |-> targetEmail,
      subject |-> subject, body |-> body,
      list_id |-> "1", error_checking |-> "1" ]

\* SendEmailViaUnisender, from the reply of http.PostForm on: (result, err)
SendEmailViaUnisender(reply) ==
    IF reply.http = "error"
    THEN [result |-> Nil, err |-> Errorf("oshibka HTTP zaprosa: ", [cause |-> "post"])]
    ELSE LET dec == DecodeResponse(reply.body)
         IN  IF dec.err # Nil
             THEN [result |-> Nil,
                   err |-> Errorf("oshibka dekodirovanija otveta: ", dec.err)]
             ELSE [result |-> dec.val, err |-> Nil]

\* one element of a JSON array decoded into an int64 slot of a fresh slice
ElemInt64(e) == IF e.t = "int" THEN e.n ELSE 0
ElemOk(e) == e.t \in {"int", "null"}

\* json.Unmarshal(result.Result, &emailIDs) with var emailIDs []int64
UnmarshalIDs(raw) ==
    CASE raw.t = "arr" ->
            [err |-> \E i \in 1..Len(raw.a) : ~ElemOk(raw.a[i]),
             ids |-> [i \in 1..Len(raw.a) |-> ElemInt64(raw.a[i])]]
      [] raw.t = "null" -> [err |-> FALSE, ids |-> <<>>]
      [] OTHER -> [err |-> TRUE, ids |-> <<>>]

\* mutant of Classify: the identifier reported is the last one
ClassifyLastId(ret) ==
    IF ret.err # Nil
    THEN [class |-> "TransportError", detail |-> ret.err]
    ELSE IF ret.result.Error # ""
    THEN [class |-> "ProviderError", message |-> ret.result.Error]
    ELSE LET u == UnmarshalIDs(ret.result.Result)
         IN  IF ~u.err /\ Len(u.ids) > 0
             THEN [class |-> "Success", id |-> u.ids[Len(u.ids)]]
             ELSE [class |-> "AmbiguousSuccess"]

\* the branch main takes on (result, err)
Classify(ret) ==
    IF ret.err # Nil
    THEN [class |-> "TransportError", detail |-> ret.err]
    ELSE IF ret.result.Error # ""
    THEN [class |-> "ProviderError", message |-> ret.result.Error]
    ELSE LET u == UnmarshalIDs(ret.result.Result)
         IN  IF ~u.err /\ Len(u.ids) > 0
             THEN [class |-> "Success", id |-> u.ids[1]]
             ELSE [class |-> "AmbiguousSuccess"]

\* mutant of FinalMsgText: success is worded the same with or without an ID
FinalMsgTextGeneric(ret) ==
    LET o == Classify(ret)
    IN  CASE o.class = "TransportError" ->
                <<Lit("Oshibka pri otpravke pis'ma: "), FmtV(o.detail)>>
          [] o.class = "ProviderError" ->
                <<Lit("Oshibka API Unisender: "), FmtS(o.message)>>
          [] OTHER -> <<Lit("Pis'mo uspeshno otpravleno!")>>

\* finalMsgText
FinalMsgText(ret) ==
    LET o == Classify(ret)
    IN  CASE o.class = "TransportError" ->
                <<Lit("Oshibka pri otpravke pis'ma: "), FmtV(o.detail)>>
          [] o.class = "ProviderError" ->
                <<Lit("Oshibka API Unisender: "), FmtS(o.message)>>
          [] o.class = "Success" ->
                <<Lit("Pis'mo uspeshno otpravleno, ID: "), FmtD(o.id)>>
          [] OTHER -> <<Lit("Pis'mo uspeshno otpravleno!")>>

\* provider replies the model draws from
RespOk ==
    HttpBody(JObj(<<Member(KeyResult, JArr(<<JInt(123), JInt(456)>>)),
                    Member(KeyError, JStr(""))>>))
RespOkNoError == HttpBody(JObj(<<Member(KeyResult, JArr(<<JInt(7)>>))>>))
RespStringIds ==
    HttpBody(JObj(<<Member(KeyResult, JStr("[123,456]")), Member(KeyError, JStr(""))>>))
RespStringObj ==
    HttpBody(JObj(<<Member(KeyResult, JStr("{}")), Member(KeyError, JStr(""))>>))
RespObject ==
    HttpBody(JObj(<<Member(KeyResult,
                           JObj(<<Member(<<"e","m","a","i","l","_","i","d">>, JInt(5))>>)),
                    Member(KeyError, JStr(""))>>))
RespEmptyArr ==
    HttpBody(JObj(<<Member(KeyResult, JArr(<<>>)), Member(KeyError, JStr(""))>>))
RespNoResult == HttpBody(JObj(<<Member(KeyError, JStr(""))>>))
RespNullResult == HttpBody(JObj(<<Member(KeyResult, JNull)>>))
RespNullBody == HttpBody(JNull)
RespFracIds == HttpBody(JObj(<<Member(KeyResult, JArr(<<JFrac>>))>>))
RespMixedIds == HttpBody(JObj(<<Member(KeyResult, JArr(<<JInt(123), JStr("x")>>))>>))
RespNullIds == HttpBody(JObj(<<Member(KeyResult, JArr(<<JNull, JInt(456)>>))>>))
RespError == HttpBody(JObj(<<Member(KeyError, JStr("invalid_api_key"))>>))
RespErrorAndIds ==
    HttpBody(JObj(<<Member(KeyResult, JArr(<<JInt(123)>>)), Member(KeyError, JStr("limit"))>>))
RespErrorNotString ==
    HttpBody(JObj(<<Member(KeyResult, JArr(<<JInt(123)>>)), Member(KeyError, JInt(5))>>))
RespArrayBody == HttpBody(JArr(<<JInt(123)>>))
RespGarbage == HttpBody(NotJSON)
\* {"Error":"invalid_api_key"}, {"Result":[77]}, {"result":[1],"ERROR":5}
RespUpperError ==
    HttpBody(JObj(<<Member(<<"E","r","r","o","r">>, JStr("invalid_api_key"))>>))
RespUpperResult ==
    HttpBody(JObj(<<Member(<<"R","e","s","u","l","t">>, JArr(<<JInt(77)>>))>>))
RespUpperErrorNotString ==
    HttpBody(JObj(<<Member(KeyResult, JArr(<<JInt(1)>>)),
                    Member(<<"E","R","R","O","R">>, JInt(5))>>))
\* {"error":"denied","result":[9],"error":""}: the later "error" stands
RespErrorTwice ==
    HttpBody(JObj(<<Member(KeyError, JStr("denied")),
                    Member(KeyResult, JArr(<<JInt(9)>>)),
                    Member(KeyError, JStr(""))>>))

Replies ==
    { ConnFail, RespGarbage, RespArrayBody, RespErrorNotString, RespNullBody,
      RespOk, RespOkNoError, RespStringIds, RespStringObj, RespObject,
      RespEmptyArr, RespNoResult, RespNullResult, RespFracIds, RespMixedIds,
      RespNullIds, RespError, RespErrorAndIds, RespUpperError, RespUpperResult,
      RespUpperErrorNotString, RespErrorTwice }
\* replies of the one-user specification
CycleReplies == { ConnFail, RespOk, RespEmptyArr, RespError }

----------------------------------------------------------------------------
(* The update loop of main *)

\* &UserState{State: "initial"}
UserState(state) == [State |-> state, Subject |-> <<>>, Body |-> <<>>, SenderName |-> <<>>]

Exists(u) == states[u] # NoState

\* the channel where its content is not followed, and where it is
NotFollowed == [followed |-> FALSE]
Following(q) == [followed |-> TRUE, waiting |-> q]

\* update.Message.Chat.ID of a message that user u writes to the bot in
\* private: Telegram gives the private chat the id of the user
PrivateChat(u) == u
\* update.Message.Chat.ID of a message written in a group that the bot is a
\* member of; From.ID is the writer, and several users write in one group
GroupChat == -1001

\* an update with a message of user u in the chat c, and one without a
\* message; id is the update_id, which grows with the arrival.  A message
\* that reaches the loop has a sender: posts without one come as
\* channel_post, for which update.Message is nil
Update(id, u, c, raw) ==
    [id |-> id, message |-> TRUE, from |-> u, chat |-> c, text |-> raw]
NoMessage(id) == [id |-> id, message |-> FALSE]

\* for update := range updates: the loop receives from the channel, which
\* gives the update that has waited longest.  The update is a message of u
\* in the chat c with the text raw.
TakeMessage(u, c, raw) ==
    IF updates.followed
    THEN /\ updates.waiting # <<>>
         /\ Head(updates.waiting).message
         /\ Head(updates.waiting).from = u
         /\ Head(updates.waiting).chat = c
         /\ Head(updates.waiting).text = raw
         /\ updates' = Following(Tail(updates.waiting))
    ELSE UNCHANGED updates

\* the same, the update has no message
TakeNoMessage ==
    IF updates.followed
    THEN /\ updates.waiting # <<>>
         /\ ~Head(updates.waiting).message
         /\ updates' = Following(Tail(updates.waiting))
    ELSE UNCHANGED updates

Event(raw, c, pre, post, chat, mail, reply) ==
    [text |-> raw, chatID |-> c, pre |-> pre, post |-> post, chat |-> chat,
     mail |-> mail, reply |-> reply]

\* bookkeeping common to the handling of one message of user u in the chat c
Observe(u, c, raw, chat, mail) ==
    /\ hist' = [hist EXCEPT ![u] =
                  Append(@, Event(raw, c, states[u].State, states'[u].State,
                                  chat, mail, NoReply))]
    /\ last' = u
    /\ left > 0
    /\ left' = left - 1
    /\ TakeMessage(u, c, raw)

Init ==
    /\ states = [u \in Users |-> NoState]
    /\ pc = "recv"
    /\ last = NoUser
    /\ hist = [u \in Users |-> <<>>]
    /\ left = MaxUpdates
    /\ updates = NotFollowed

\* mutant of IgnoreUpdate: an update without a message resets a record
IgnoreUpdateTouchesRecord ==
    /\ pc = "recv"
    /\ left > 0
    /\ left' = left - 1
    /\ \E u \in Users : states' = [states EXCEPT ![u] = UserState("initial")]
    /\ TakeNoMessage
    /\ UNCHANGED <<pc, last, hist>>

\* update.Message == nil: continue.  The update is taken off the channel
\* and nothing else happens.
IgnoreUpdate ==
    /\ pc = "recv"
    /\ left > 0
    /\ left' = left - 1
    /\ TakeNoMessage
    /\ UNCHANGED <<states, pc, last, hist>>

\* mutant of HandleStart: a record that exists is left as it is
HandleStartKeepsRecord(u, c, raw) ==
    /\ pc = "recv"
    /\ TrimSpace(raw) = START_COMMAND
    /\ states' = IF ~Exists(u) THEN [states EXCEPT ![u] = UserState("initial")]
                 ELSE states
    /\ Observe(u, c, raw, <<NewMessage(c, GreetingText, InitialKeyboard)>>, <<>>)
    /\ UNCHANGED pc

\* text == "/start", up to the call of bot.Send
StartBranch(u, c, raw) ==
    /\ pc = "recv"
    /\ TrimSpace(raw) = START_COMMAND
    /\ states' = [states EXCEPT ![u] = UserState("initial")]
    /\ Observe(u, c, raw, <<NewMessage(c, GreetingText, InitialKeyboard)>>, <<>>)

\* text == "/start", to the continue: bot.Send has returned
HandleStart(u, c, raw) == StartBranch(u, c, raw) /\ UNCHANGED pc

\* mutant of HandleStray: the label of a user without a record starts a letter
HandleStrayAcceptsLabel(u, c, raw) ==
    /\ pc = "recv"
    /\ TrimSpace(raw) # START_COMMAND
    /\ \/ ~Exists(u)
       \/ states[u].State = "initial" /\ TrimSpace(raw) # NEW_LETTER_BUTTON_TEXT
    /\ states' = IF Exists(u) THEN states
                 ELSE IF TrimSpace(raw) = NEW_LETTER_BUTTON_TEXT
                 THEN [states EXCEPT ![u] = UserState("await_subject")]
                 ELSE [states EXCEPT ![u] = UserState("initial")]
    /\ Observe(u, c, raw, <<NewMessage(c, RepromptText, InitialKeyboard)>>, <<>>)
    /\ UNCHANGED pc

\* !exists || (state.State == "initial" && text != NEW_LETTER_BUTTON_TEXT),
\* up to the call of bot.Send
StrayBranch(u, c, raw) ==
    /\ pc = "recv"
    /\ TrimSpace(raw) # START_COMMAND
    /\ \/ ~Exists(u)
       \/ states[u].State = "initial" /\ TrimSpace(raw) # NEW_LETTER_BUTTON_TEXT
    /\ states' = IF ~Exists(u) THEN [states EXCEPT ![u] = UserState("initial")]
                 ELSE states
    /\ Observe(u, c, raw, <<NewMessage(c, RepromptText, InitialKeyboard)>>, <<>>)

\* the same branch to its continue: bot.Send has returned
HandleStray(u, c, raw) == StrayBranch(u, c, raw) /\ UNCHANGED pc

\* mutant of HandleNewLetter: the prompt for the subject shows the keyboard
HandleNewLetterKeepsKeyboard(u, c, raw) ==
    /\ pc = "recv"
    /\ TrimSpace(raw) # START_COMMAND
    /\ Exists(u)
    /\ states[u].State = "initial"
    /\ TrimSpace(raw) = NEW_LETTER_BUTTON_TEXT
    /\ states' = [states EXCEPT ![u].State = "await_subject"]
    /\ Observe(u, c, raw, <<NewMessage(c, AskSubjectText, InitialKeyboard)>>, <<>>)
    /\ UNCHANGED pc

\* case "initial", up to the call of bot.Send
InitialCase(u, c, raw) ==
    /\ pc = "recv"
    /\ TrimSpace(raw) # START_COMMAND
    /\ Exists(u)
    /\ states[u].State = "initial"
    /\ TrimSpace(raw) = NEW_LETTER_BUTTON_TEXT
    /\ states' = [states EXCEPT ![u].State = "await_subject"]
    /\ Observe(u, c, raw, <<NewMessage(c, AskSubjectText, RemoveKeyboard)>>, <<>>)

\* case "initial" to its end: bot.Send has returned
HandleNewLetter(u, c, raw) == InitialCase(u, c, raw) /\ UNCHANGED pc

\* mutant of HandleSubject: one record is shared by all users
HandleSubjectShared(u, c, raw) ==
    /\ pc = "recv"
    /\ TrimSpace(raw) # START_COMMAND
    /\ Exists(u)
    /\ states[u].State = "await_subject"
    /\ states' = [w \in Users |->
                    IF w = u
                    THEN [states[w] EXCEPT !.Subject = TrimSpace(raw),
                                           !.State = "await_body"]
                    ELSE IF Exists(w)
                    THEN [states[w] EXCEPT !.Subject = TrimSpace(raw)]
                    ELSE states[w]]
    /\ Observe(u, c, raw, <<NewMessage(c, AskBodyText, NoMarkup)>>, <<>>)
    /\ UNCHANGED pc

\* mutant of HandleSubject: the new subject clears the body of the last letter
HandleSubjectClearsBody(u, c, raw) ==
    /\ pc = "recv"
    /\ TrimSpace(raw) # START_COMMAND
    /\ Exists(u)
    /\ states[u].State = "await_subject"
    /\ states' = [states EXCEPT ![u].Subject = TrimSpace(raw),
                                ![u].Body = <<>>,
                                ![u].State = "await_body"]
    /\ Observe(u, c, raw, <<NewMessage(c, AskBodyText, NoMarkup)>>, <<>>)
    /\ UNCHANGED pc

\* mutant of HandleSubject: a subject already stored is kept
HandleSubjectKeepsOld(u, c, raw) ==
    /\ pc = "recv"
    /\ TrimSpace(raw) # START_COMMAND
    /\ Exists(u)
    /\ states[u].State = "await_subject"
    /\ states' = [states EXCEPT ![u].Subject = IF @ = <<>> THEN TrimSpace(raw) ELSE @,
                                ![u].State = "await_body"]
    /\ Observe(u, c, raw, <<NewMessage(c, AskBodyText, NoMarkup)>>, <<>>)
    /\ UNCHANGED pc

\* case "await_subject", up to the call of bot.Send
AwaitSubjectCase(u, c, raw) ==
    /\ pc = "recv"
    /\ TrimSpace(raw) # START_COMMAND
    /\ Exists(u)
    /\ states[u].State = "await_subject"
    /\ states' = [states EXCEPT ![u].Subject = TrimSpace(raw),
                                ![u].State = "await_body"]
    /\ Observe(u, c, raw, <<NewMessage(c, AskBodyText, NoMarkup)>>, <<>>)

\* case "await_subject" to its end: bot.Send has returned
HandleSubject(u, c, raw) == AwaitSubjectCase(u, c, raw) /\ UNCHANGED pc

\* mutant of HandleBody: a body already stored is kept
HandleBodyKeepsOld(u, c, raw) ==
    /\ pc = "recv"
    /\ TrimSpace(raw) # START_COMMAND
    /\ Exists(u)
    /\ states[u].State = "await_body"
    /\ states' = [states EXCEPT ![u].Body = IF @ = <<>> THEN TrimSpace(raw) ELSE @,
                                ![u].State = "await_sender"]
    /\ Observe(u, c, raw, <<NewMessage(c, AskSenderText, NoMarkup)>>, <<>>)
    /\ UNCHANGED pc

\* mutant of HandleBody: the body ends the cycle without a send
HandleBodyResets(u, c, raw) ==
    /\ pc = "recv"
    /\ TrimSpace(raw) # START_COMMAND
    /\ Exists(u)
    /\ states[u].State = "await_body"
    /\ states' = [states EXCEPT ![u].Body = TrimSpace(raw),
                                ![u].State = "initial"]
    /\ Observe(u, c, raw, <<NewMessage(c, AskSenderText, NoMarkup)>>, <<>>)
    /\ UNCHANGED pc

\* case "await_body", up to the call of bot.Send
AwaitBodyCase(u, c, raw) ==
    /\ pc = "recv"
    /\ TrimSpace(raw) # START_COMMAND
    /\ Exists(u)
    /\ states[u].State = "await_body"
    /\ states' = [states EXCEPT ![u].Body = TrimSpace(raw),
                                ![u].State = "await_sender"]
    /\ Observe(u, c, raw, <<NewMessage(c, AskSenderText, NoMarkup)>>, <<>>)

\* case "await_body" to its end: bot.Send has returned
HandleBody(u, c, raw) == AwaitBodyCase(u, c, raw) /\ UNCHANGED pc

\* mutant of HandleSender: the message is taken without waiting for the end
\* of the send attempt in flight
HandleSenderConcurrent(u, c, raw) ==
    /\ TrimSpace(raw) # START_COMMAND
    /\ Exists(u)
    /\ states[u].State = "await_sender"
    /\ states' = [states EXCEPT ![u].SenderName = TrimSpace(raw)]
    /\ Observe(u, c, raw, <<NewMessage(c, SendingText, NoMarkup)>>, <<>>)
    /\ pc' = "interim"

\* mutant of HandleSender: no interim message
HandleSenderSilent(u, c, raw) ==
    /\ pc = "recv"
    /\ TrimSpace(raw) # START_COMMAND
    /\ Exists(u)
    /\ states[u].State = "await_sender"
    /\ states' = [states EXCEPT ![u].SenderName = TrimSpace(raw)]
    /\ Observe(u, c, raw, <<>>, <<>>)
    /\ pc' = "interim"

\* case "await_sender", lines 240-242: the sender name is stored and the
\* interim message is handed to bot.Send; no request is posted before that
\* call returns
HandleSender(u, c, raw) ==
    /\ pc = "recv"
    /\ TrimSpace(raw) # START_COMMAND
    /\ Exists(u)
    /\ states[u].State = "await_sender"
    /\ states' = [states EXCEPT ![u].SenderName = TrimSpace(raw)]
    /\ Observe(u, c, raw, <<NewMessage(c, SendingText, NoMarkup)>>, <<>>)
    /\ pc' = "interim"

\* mutant of SenderPost: the phase is reset before the call
SenderPostResetsFirst ==
    /\ pc = "interim"
    /\ hist' = [hist EXCEPT ![last][Len(hist[last])].mail =
                  Append(@, EmailRequest(UnisenderAPIKey, TargetEmail, SenderEmail,
                                         states[last].Subject, states[last].Body,
                                         states[last].SenderName))]
    /\ states' = [states EXCEPT ![last].State = "initial"]
    /\ pc' = "mailer"
    /\ UNCHANGED <<last, left, updates>>

\* the bot.Send of line 242 has returned: SendEmailViaUnisender(...), up to
\* http.PostForm
SenderPost ==
    /\ pc = "interim"
    /\ hist' = [hist EXCEPT ![last][Len(hist[last])].mail =
                  Append(@, EmailRequest(UnisenderAPIKey, TargetEmail, SenderEmail,
                                         states[last].Subject, states[last].Body,
                                         states[last].SenderName))]
    /\ pc' = "mailer"
    /\ UNCHANGED <<states, last, left, updates>>

\* mutant of MailerReturn: the phase is reset only when the call gave no error
MailerReturnResetOnSuccess(reply) ==
    /\ pc = "mailer"
    /\ LET u == last
           n == Len(hist[u])
           ret == SendEmailViaUnisender(reply)
           msg == NewMessage(hist[u][n].chatID, FinalMsgText(ret) \o <<AnotherLetterSuffix>>,
                             InitialKeyboard)
       IN  /\ states' = IF ret.err = Nil
                        THEN [states EXCEPT ![u].State = "initial"]
                        ELSE states
           /\ hist' = [hist EXCEPT ![u][n].post = states'[u].State,
                                   ![u][n].chat = Append(@, msg),
                                   ![u][n].reply = reply]
    /\ pc' = "recv"
    /\ UNCHANGED <<last, left, updates>>

\* case "await_sender", from the return of http.PostForm to the end: the
\* final bot.Send has returned
MailerReturn(reply) ==
    /\ pc = "mailer"
    /\ LET u == last
           n == Len(hist[u])
           ret == SendEmailViaUnisender(reply)
           msg == NewMessage(hist[u][n].chatID, FinalMsgText(ret) \o <<AnotherLetterSuffix>>,
                             InitialKeyboard)
       IN  /\ states' = [states EXCEPT ![u].State = "initial"]
           /\ hist' = [hist EXCEPT ![u][n].post = states'[u].State,
                                   ![u][n].chat = Append(@, msg),
                                   ![u][n].reply = reply]
    /\ pc' = "recv"
    /\ UNCHANGED <<last, left, updates>>

Next ==
    \/ IgnoreUpdate
    \/ \E u \in Users, raw \in RawTexts : HandleStart(u, GroupChat, raw)
    \/ \E u \in Users, raw \in RawTexts : HandleStray(u, GroupChat, raw)
    \/ \E u \in Users, raw \in RawTexts : HandleNewLetter(u, GroupChat, raw)
    \/ \E u \in Users, raw \in RawTexts : HandleSubject(u, GroupChat, raw)
    \/ \E u \in Users, raw \in RawTexts : HandleBody(u, GroupChat, raw)
    \/ \E u \in Users, raw \in RawTexts : HandleSender(u, GroupChat, raw)
    \/ SenderPost
    \/ \E reply \in Replies : MailerReturn(reply)

Spec == Init /\ [][Next]_vars

\* one user, two letters in a row; the user has sent /start before, so its
\* record is there, fresh and in INITIAL
InitCycles ==
    /\ states = [u \in Users |-> IF u = 1 THEN UserState("initial") ELSE NoState]
    /\ pc = "recv"
    /\ last = NoUser
    /\ hist = [u \in Users |-> <<>>]
    /\ left = MaxCycleUpdates
    /\ updates = NotFollowed

NextCycles ==
    \/ IgnoreUpdate
    \/ \E raw \in CycleTexts : HandleStart(1, PrivateChat(1), raw)
    \/ \E raw \in CycleTexts : HandleStray(1, PrivateChat(1), raw)
    \/ \E raw \in CycleTexts : HandleNewLetter(1, PrivateChat(1), raw)
    \/ \E raw \in CycleTexts : HandleSubject(1, PrivateChat(1), raw)
    \/ \E raw \in CycleTexts : HandleBody(1, PrivateChat(1), raw)
    \/ \E raw \in CycleTexts : HandleSender(1, PrivateChat(1), raw)
    \/ SenderPost
    \/ \E reply \in CycleReplies : MailerReturn(reply)

SpecCycles == InitCycles /\ [][NextCycles]_vars

\* two users, the texts of SpecCycles
InitTwoUsers ==
    /\ states = [u \in Users |-> NoState]
    /\ pc = "recv"
    /\ last = NoUser
    /\ hist = [u \in Users |-> <<>>]
    /\ left = MaxTwoUserUpdates
    /\ updates = NotFollowed

NextTwoUsers ==
    \/ IgnoreUpdate
    \/ \E u \in Users, raw \in CycleTexts : HandleStart(u, PrivateChat(u), raw)
    \/ \E u \in Users, raw \in CycleTexts : HandleStray(u, PrivateChat(u), raw)
    \/ \E u \in Users, raw \in CycleTexts : HandleNewLetter(u, PrivateChat(u), raw)
    \/ \E u \in Users, raw \in CycleTexts : HandleSubject(u, PrivateChat(u), raw)
    \/ \E u \in Users, raw \in CycleTexts : HandleBody(u, PrivateChat(u), raw)
    \/ \E u \in Users, raw \in CycleTexts : HandleSender(u, PrivateChat(u), raw)
    \/ SenderPost
    \/ \E reply \in CycleReplies : MailerReturn(reply)

SpecTwoUsers == InitTwoUsers /\ [][NextTwoUsers]_vars

Phases == {"initial", "await_subject", "await_body", "await_sender"}

TypeOK ==
    /\ pc \in {"recv", "replying", "stored", "interim", "mailer", "returned", "reset"}
    /\ last \in Users \cup {NoUser}
    /\ left \in 0..(MaxCycleUpdates + MaxUpdates + MaxTwoUserUpdates)
    /\ \A u \in Users : states[u].State \in Phases \cup {"none"}
    /\ pc \in {"interim", "mailer"} =>
          last \in Users /\ states[last].State = "await_sender"
    /\ updates.followed => Len(updates.waiting) <= left

----------------------------------------------------------------------------
(* What the claims speak of, read off the observed history *)

\* the event of the message handled last
LastEv == hist[last][Len(hist[last])]
\* the message handled last has been handled to the end
Done == last \in Users /\ pc = "recv"
\* event i of user u has been handled to the end
Complete(u, i) == i < Len(hist[u]) \/ u # last \/ pc = "recv"

IsStartCommand(raw) == TrimSpace(raw) = START_COMMAND
IsLabel(raw) == TrimSpace(raw) = NEW_LETTER_BUTTON_TEXT

\* the request a letter with these three texts is to produce
Letter(s, b, n) ==
    [ format |-> "json", api_key |-> UnisenderAPIKey, sender_name |-> n,
      sender_email |-> SenderEmail, email |-> TargetEmail, subject |-> s,
      body |-> b, list_id |-> "1", error_checking |-> "1" ]

\* events i..i+3 of user u are four consecutive messages of u, the first of
\* them the affordance label received with the record in INITIAL
FourFromLabel(u, i) ==
    /\ i + 3 <= Len(hist[u])
    /\ Complete(u, i + 3)
    /\ hist[u][i].pre = "initial"
    /\ hist[u][i].text = NEW_LETTER_BUTTON_TEXT

\* over events i..i+3 of u exactly one request went out, it carries s, b, n,
\* and the phase is INITIAL afterwards
OneLetterSent(u, i, s, b, n) ==
    /\ hist[u][i].mail = <<>>
    /\ hist[u][i + 1].mail = <<>>
    /\ hist[u][i + 2].mail = <<>>
    /\ hist[u][i + 3].mail = <<Letter(s, b, n)>>
    /\ hist[u][i + 3].post = "initial"
    /\ (i + 3 = Len(hist[u]) => states[u].State = "initial")

NoStartAmong(u, i) ==
    \A k \in (i + 1)..(i + 3) : ~IsStartCommand(hist[u][k].text)

\* C1 as stated: label, s, b, n of a user in INITIAL, whatever the three
\* texts, give exactly one request carrying s, b, n as received, and leave
\* the phase INITIAL.
C1_AnyThreeTexts ==
    \A u \in Users : \A i \in 1..Len(hist[u]) :
        FourFromLabel(u, i) =>
            OneLetterSent(u, i, hist[u][i + 1].text, hist[u][i + 2].text,
                          hist[u][i + 3].text)

\* C1 amended: when none of s, b, n is the /start command once trimmed, the
\* four messages give exactly one request, which carries the configured
\* addresses and key and TrimSpace of s, b and n, and leave the phase INITIAL,
\* however the messages of the other user are interleaved.
C1_FullCycleSendsOnce ==
    \A u \in Users : \A i \in 1..Len(hist[u]) :
        FourFromLabel(u, i) /\ NoStartAmong(u, i) =>
            OneLetterSent(u, i, TrimSpace(hist[u][i + 1].text),
                          TrimSpace(hist[u][i + 2].text),
                          TrimSpace(hist[u][i + 3].text))

\* a full cycle of one user with distinct subject and body, the body padded
\* with white space, in a run where the other user has written too
C1_Witness ==
    \E u \in Users : \E i \in 1..Len(hist[u]) :
        /\ FourFromLabel(u, i) /\ NoStartAmong(u, i)
        /\ TrimSpace(hist[u][i + 1].text) # TrimSpace(hist[u][i + 2].text)
        /\ hist[u][i + 2].text # TrimSpace(hist[u][i + 2].text)
        /\ \E w \in Users \ {u} : hist[w] # <<>>

----------------------------------------------------------------------------
(* Single messages *)

Greeting(c) == NewMessage(c, GreetingText, InitialKeyboard)
Reprompt(c) == NewMessage(c, RepromptText, InitialKeyboard)

\* C2: the /start command, from no record or from any phase, leaves the
\* user's phase INITIAL, sends exactly one message, the greeting with the
\* start keyboard, and posts no e-mail request.
C2_StartResets ==
    Done /\ IsStartCommand(LastEv.text) =>
        /\ states[last].State = "initial"
        /\ LastEv.post = "initial"
        /\ LastEv.chat = <<Greeting(LastEv.chatID)>>
        /\ LastEv.mail = <<>>

\* /start has just been handled for a user who was about to name the sender
C2_Witness ==
    Done /\ IsStartCommand(LastEv.text) /\ LastEv.pre = "await_sender"

\* C3: once a message received in AWAIT_SENDER has been handled, the user's
\* phase is INITIAL and the last chat message shows the start keyboard,
\* whatever the provider replied.
C3_SenderEndsInitial ==
    Done /\ LastEv.pre = "await_sender" =>
        /\ states[last].State = "initial"
        /\ LastEv.post = "initial"
        /\ LastEv.chat # <<>>
        /\ LastEv.chat[Len(LastEv.chat)].markup = InitialKeyboard

\* a send attempt has ended with a connection failure
C3_Witness ==
    Done /\ LastEv.pre = "await_sender" /\ LastEv.reply = ConnFail

StrayOutcome ==
    /\ states[last].State = "initial"
    /\ LastEv.post = "initial"
    /\ LastEv.chat = <<Reprompt(LastEv.chatID)>>
    /\ LastEv.mail = <<>>

\* C4 as stated: with no record any text, and in INITIAL any text other than
\* the label, leaves the record at INITIAL with exactly one message, which
\* carries the start keyboard, and no request.  (Read in the claim's favour:
\* the greeting that answers /start counts as the one message.)
C4_AnyStrayText ==
    Done /\ ( \/ LastEv.pre = "none"
              \/ LastEv.pre = "initial" /\ LastEv.text # NEW_LETTER_BUTTON_TEXT ) =>
        /\ states[last].State = "initial"
        /\ LastEv.post = "initial"
        /\ Len(LastEv.chat) = 1
        /\ LastEv.chat[1].markup = InitialKeyboard
        /\ LastEv.mail = <<>>

\* C4 amended: with no record any text that is not /start once trimmed, and
\* in INITIAL any text that once trimmed is neither the label nor /start,
\* leaves the record at INITIAL (created there when there was none) with
\* exactly one re-prompt carrying the start keyboard and no request.
C4_StrayNeverAdvances ==
    Done /\ ~IsStartCommand(LastEv.text)
         /\ ( \/ LastEv.pre = "none"
              \/ LastEv.pre = "initial" /\ ~IsLabel(LastEv.text) ) =>
        /\ StrayOutcome
        /\ LastEv.pre = "none" => states[last] = UserState("initial")

\* a user without a record has just sent the label itself
C4_Witness ==
    /\ Done /\ LastEv.pre = "none" /\ LastEv.text = NEW_LETTER_BUTTON_TEXT
    /\ \E w \in Users : Len(hist[w]) > 1 /\ hist[w][2].pre = "initial"
                         /\ ~IsLabel(hist[w][2].text)
                         /\ ~IsStartCommand(hist[w][2].text)

\* C10 as stated: a message received in AWAIT_SENDER gives two chat messages
\* and one request, every other message one chat message and no request.
C10_OneMessagePerUpdate ==
    Done =>
        IF LastEv.pre = "await_sender"
        THEN Len(LastEv.chat) = 2 /\ Len(LastEv.mail) = 1
        ELSE Len(LastEv.chat) = 1 /\ Len(LastEv.mail) = 0

\* C10 amended: a message received in AWAIT_SENDER that is not /start once
\* trimmed gives exactly two chat messages (interim, final) and exactly one
\* request; every other message, /start in AWAIT_SENDER included, gives
\* exactly one chat message and no request.
C10_MessagesPerUpdate ==
    Done =>
        IF LastEv.pre = "await_sender" /\ ~IsStartCommand(LastEv.text)
        THEN /\ Len(LastEv.chat) = 2 /\ Len(LastEv.mail) = 1
             /\ LastEv.chat[1].text = SendingText
        ELSE Len(LastEv.chat) = 1 /\ Len(LastEv.mail) = 0

\* a send attempt has been handled to the end
C10_Witness ==
    Done /\ LastEv.pre = "await_sender" /\ ~IsStartCommand(LastEv.text)
         /\ LastEv.reply = RespOk

----------------------------------------------------------------------------
(* The outcome of a send attempt *)

\* a send attempt has been handled to the end
SendDone(u, i) ==
    /\ i \in 1..Len(hist[u])
    /\ Complete(u, i)
    /\ hist[u][i].reply # NoReply

\* the outcome line of the final chat message of a send attempt
OutcomeText(ev) == SubSeq(ev.chat[2].text, 1, Len(ev.chat[2].text) - 1)

TransportWording == Lit("Oshibka pri otpravke pis'ma: ")
ProviderWording == Lit("Oshibka API Unisender: ")
SuccessIdWording == Lit("Pis'mo uspeshno otpravleno, ID: ")
SuccessWording == Lit("Pis'mo uspeshno otpravleno!")

TransportError == [class |-> "TransportError"]
ProviderError(m) == [class |-> "ProviderError", message |-> m]
Success(id) == [class |-> "Success", id |-> id]
AmbiguousSuccess == [class |-> "AmbiguousSuccess"]
Unknown == [class |-> "Unknown"]

\* the outcome the user is told of, read off the outcome line
ToldOutcome(ev) ==
    LET t == OutcomeText(ev)
    IN  CASE t = <<SuccessWording>> -> AmbiguousSuccess
          [] Len(t) = 2 /\ t[1] = TransportWording -> TransportError
          [] Len(t) = 2 /\ t[1] = ProviderWording -> ProviderError(t[2].s)
          [] Len(t) = 2 /\ t[1] = SuccessIdWording -> Success(t[2].d)
          [] OTHER -> Unknown

\* a result payload that is a non-empty sequence of numeric identifiers
IsIdSequence(raw) ==
    /\ raw.t = "arr"
    /\ raw.a # <<>>
    /\ \A i \in 1..Len(raw.a) : raw.a[i].t = "int"

\* the outcome C5 gives for a provider reply
ClaimedOutcome(reply) ==
    IF reply.http = "error" THEN TransportError
    ELSE LET dec == DecodeResponse(reply.body)
         IN  IF dec.err # Nil THEN TransportError
             ELSE IF dec.val.Error # "" THEN ProviderError(dec.val.Error)
             ELSE IF IsIdSequence(dec.val.Result)
                  THEN Success(dec.val.Result.a[1].n)
                  ELSE AmbiguousSuccess

\* C5: the outcome of every send attempt is the one the classification
\* gives: TransportError on a connection failure or a body that does not
\* decode, else ProviderError(message) on a non-empty top-level error, else
\* Success(first identifier) on a non-empty sequence of numeric identifiers,
\* else AmbiguousSuccess.
C5_OutcomeClassification ==
    Done /\ SendDone(last, Len(hist[last])) =>
        ToldOutcome(LastEv) = ClaimedOutcome(LastEv.reply)

\* C6 as stated: result the JSON string "[123,456]" with an empty error is
\* Success(123), result the JSON string "{}" with an empty error is
\* AmbiguousSuccess, {"error":"invalid_api_key"} is
\* ProviderError("invalid_api_key").
C6_StringResultIsSuccess ==
    Done /\ SendDone(last, Len(hist[last])) =>
        /\ LastEv.reply = RespStringIds => ToldOutcome(LastEv) = Success(123)
        /\ LastEv.reply = RespStringObj => ToldOutcome(LastEv) = AmbiguousSuccess
        /\ LastEv.reply = RespError =>
              ToldOutcome(LastEv) = ProviderError("invalid_api_key")

\* C6 amended: result the JSON array [123,456] with an empty error is
\* Success(123); result a JSON string, "[123,456]" or "{}", with an empty
\* error is AmbiguousSuccess; {"error":"invalid_api_key"} is
\* ProviderError("invalid_api_key").
C6_ExampleOutcomes ==
    Done /\ SendDone(last, Len(hist[last])) =>
        /\ LastEv.reply = RespOk => ToldOutcome(LastEv) = Success(123)
        /\ LastEv.reply = RespStringIds => ToldOutcome(LastEv) = AmbiguousSuccess
        /\ LastEv.reply = RespStringObj => ToldOutcome(LastEv) = AmbiguousSuccess
        /\ LastEv.reply = RespError =>
              ToldOutcome(LastEv) = ProviderError("invalid_api_key")

\* the provider has answered {"result":[123,456],"error":""}
C6_Witness == Done /\ SendDone(last, Len(hist[last])) /\ LastEv.reply = RespOk

----------------------------------------------------------------------------
(* Several send attempts of one user *)

Sends(u) == { i \in 1..Len(hist[u]) : SendDone(u, i) }

SameWording(c, d) == c = d \/ {c, d} = {"Success", "AmbiguousSuccess"}

\* C7 as stated: the outcome text depends on the outcome class only;
\* transport failure, provider error and success are worded differently, and
\* AmbiguousSuccess has exactly the text of Success.
C7_TextByClassOnly ==
    \A u \in Users : \A i, j \in Sends(u) :
        LET c == ClaimedOutcome(hist[u][i].reply).class
            d == ClaimedOutcome(hist[u][j].reply).class
        IN  OutcomeText(hist[u][i]) = OutcomeText(hist[u][j]) <=> SameWording(c, d)

\* C7 amended: the outcome text is fixed by the outcome, payload included
\* (the error detail, the provider's message, the first identifier), each
\* class with its own wording; the four classes have pairwise distinct
\* texts, and the AmbiguousSuccess text is the success wording without an
\* identifier, which no Success text equals.
C7_TextByOutcome ==
    \A u \in Users : \A i, j \in Sends(u) :
        /\ ToldOutcome(hist[u][i]) = ClaimedOutcome(hist[u][i].reply)
        /\ ClaimedOutcome(hist[u][i].reply).class # ClaimedOutcome(hist[u][j].reply).class
              => OutcomeText(hist[u][i]) # OutcomeText(hist[u][j])
        /\ hist[u][i].reply = hist[u][j].reply
              => OutcomeText(hist[u][i]) = OutcomeText(hist[u][j])

\* one user has been told of a success with an identifier and of an
\* ambiguous success
C7_Witness ==
    \E u \in Users : \E i, j \in Sends(u) :
        /\ ClaimedOutcome(hist[u][i].reply).class = "Success"
        /\ ClaimedOutcome(hist[u][j].reply).class = "AmbiguousSuccess"

\* events i..i+3 of u are a full cycle: the label in INITIAL, then three
\* texts none of which is the /start command
FullCycle(u, i) ==
    /\ i + 3 <= Len(hist[u])
    /\ Complete(u, i + 3)
    /\ hist[u][i].pre = "initial"
    /\ IsLabel(hist[u][i].text)
    /\ NoStartAmong(u, i)

\* the cycle at j follows the cycle at i, at once or after one /start
SecondCycle(u, i, j) ==
    /\ FullCycle(u, i)
    /\ FullCycle(u, j)
    /\ \/ j = i + 4
       \/ j = i + 5 /\ IsStartCommand(hist[u][i + 4].text)

\* same phases and same chat messages, step by step; the final message is
\* compared when the provider gave the same reply
SameCourse(u, i, j) ==
    \A k \in 0..3 :
        /\ hist[u][i + k].pre = hist[u][j + k].pre
        /\ hist[u][i + k].post = hist[u][j + k].post
        /\ Len(hist[u][i + k].chat) = Len(hist[u][j + k].chat)
        /\ hist[u][i + k].chat[1] = hist[u][j + k].chat[1]
        /\ hist[u][i + k].reply = hist[u][j + k].reply
              => hist[u][i + k].chat = hist[u][j + k].chat

\* number of updates taken from the updates channel, for SpecLetters: two
\* full cycles of one user and a /start between them
MaxLetterUpdates == 9

\* replies of SpecLetters: a send refused by the provider, a send accepted
LetterReplies == { RespError, RespOk }

\* one user with the fresh record that /start leaves
InitLetters ==
    /\ states = [u \in Users |-> IF u = 1 THEN UserState("initial") ELSE NoState]
    /\ pc = "recv"
    /\ last = NoUser
    /\ hist = [u \in Users |-> <<>>]
    /\ left = MaxLetterUpdates
    /\ updates = NotFollowed

NextLetters ==
    \/ IgnoreUpdate
    \/ \E raw \in CycleTexts : HandleStart(1, PrivateChat(1), raw)
    \/ \E raw \in CycleTexts : HandleStray(1, PrivateChat(1), raw)
    \/ \E raw \in CycleTexts : HandleNewLetter(1, PrivateChat(1), raw)
    \/ \E raw \in CycleTexts : HandleSubject(1, PrivateChat(1), raw)
    \/ \E raw \in CycleTexts : HandleBody(1, PrivateChat(1), raw)
    \/ \E raw \in CycleTexts : HandleSender(1, PrivateChat(1), raw)
    \/ SenderPost
    \/ \E reply \in LetterReplies : MailerReturn(reply)

SpecLetters == InitLetters /\ [][NextLetters]_vars

\* C8 as stated: the request of a second full cycle carries exactly the
\* s2, b2, n2 received and the second cycle runs as the first did.
C8_SecondCycleVerbatim ==
    \A u \in Users : \A i \in 1..Len(hist[u]) : \A j \in {i + 4, i + 5} :
        SecondCycle(u, i, j) =>
            /\ hist[u][j + 3].mail =
                  <<Letter(hist[u][j + 1].text, hist[u][j + 2].text,
                           hist[u][j + 3].text)>>
            /\ SameCourse(u, i, j)

\* C8 amended: the request of a second full cycle carries exactly
\* TrimSpace of s2, b2, n2 and nothing of s1, b1, n1, with or without
\* /start in between and whatever the first send gave, and the second
\* cycle goes through the same phases and messages as the first.
C8_NoLeakage ==
    \A u \in Users : \A i \in 1..Len(hist[u]) : \A j \in {i + 4, i + 5} :
        SecondCycle(u, i, j) =>
            /\ hist[u][j + 3].mail =
                  <<Letter(TrimSpace(hist[u][j + 1].text),
                           TrimSpace(hist[u][j + 2].text),
                           TrimSpace(hist[u][j + 3].text))>>
            /\ SameCourse(u, i, j)

\* two full cycles with /start between them, with different subjects,
\* bodies and senders, the first send refused by the provider
C8_Witness ==
    \E u \in Users : \E i \in 1..Len(hist[u]) :
        /\ SecondCycle(u, i, i + 5)
        /\ \A k \in 1..3 : hist[u][i + k].text # hist[u][i + 5 + k].text
        /\ hist[u][i + 3].reply = RespError
        /\ hist[u][i + 8].reply = RespOk

AcceptedPress(u, i) == hist[u][i].pre = "initial" /\ IsLabel(hist[u][i].text)

Presses(u) == Cardinality({ i \in 1..Len(hist[u]) : AcceptedPress(u, i) })

RECURSIVE RequestsUpTo(_, _)
RequestsUpTo(u, n) ==
    IF n = 0 THEN 0 ELSE Len(hist[u][n].mail) + RequestsUpTo(u, n - 1)

Requests(u) == RequestsUpTo(u, Len(hist[u]))

\* C9: every request of a user comes at the end of four messages of its
\* own: the label accepted in INITIAL, then a subject, a body and a sender
\* text, with no other request among them; so no send is repeated without a
\* new cycle, and the requests of a user never outnumber its accepted
\* presses of the button.
C9_NoAutomaticRetry ==
    \A u \in Users :
        /\ Requests(u) <= Presses(u)
        /\ \A j \in 1..Len(hist[u]) :
              hist[u][j].mail # <<>> =>
                  /\ Len(hist[u][j].mail) = 1
                  /\ j > 3
                  /\ AcceptedPress(u, j - 3)
                  /\ hist[u][j - 2].pre = "await_subject"
                  /\ hist[u][j - 1].pre = "await_body"
                  /\ hist[u][j].pre = "await_sender"
                  /\ \A k \in (j - 3)..(j - 1) : hist[u][k].mail = <<>>

\* a user has had a send fail on the connection and has then sent a second
\* letter
C9_Witness ==
    \E u \in Users : \E i, j \in Sends(u) :
        /\ i < j
        /\ hist[u][i].reply = ConnFail
        /\ Requests(u) = 2

----------------------------------------------------------------------------
(* Updates that carry no text *)

\* the number of updates handled as messages so far
Handled == Len(hist[1]) + Len(hist[2])

\* C11 as stated: an inbound event that carries no text is ignored; here
\* the event is a message whose Text is empty.  It changes no record, gives
\* no chat message and no request.
C11_NoTextIgnored ==
    Done /\ LastEv.text = <<>> =>
        /\ LastEv.post = LastEv.pre
        /\ LastEv.chat = <<>>
        /\ LastEv.mail = <<>>

\* C11 amended: an update that carries no message is ignored: the step that
\* takes it off the channel changes no record (none is created, no phase
\* and no field changes), gives no chat message and no request, and leaves
\* the loop waiting for the next update, in every phase.
C11_NoMessageIgnored ==
    [][ (left' = left - 1 /\ \A u \in Users : Len(hist'[u]) = Len(hist[u]))
            => UNCHANGED <<states, hist, pc, last>> ]_vars

\* an update without a message has been taken off the channel in a run in
\* which a user has a subject and a body stored and is to name the sender
C11_Witness ==
    /\ left + Handled < MaxUpdates
    /\ pc = "recv"
    /\ \E u \in Users : /\ states[u].State = "await_sender"
                        /\ states[u].Subject # <<>>

----------------------------------------------------------------------------
(* Phase changes *)

AwaitPhases == {"await_subject", "await_body", "await_sender"}

\* the phase changes of a cycle
Forward ==
    { <<"initial", "await_subject">>, <<"await_subject", "await_body">>,
      <<"await_body", "await_sender">>, <<"await_sender", "initial">> }

\* the events of u that have been handled to the end
Events(u) == { i \in 1..Len(hist[u]) : Complete(u, i) }

\* event ev is a step of the cycle: a change of Forward, the last one with
\* exactly one request and the others with none (the creation of a record
\* in INITIAL is no change of phase)
CycleStep(ev) ==
    \/ ev.pre = "none" /\ ev.post = "initial" /\ ev.mail = <<>>
    \/ /\ <<ev.pre, ev.post>> \in Forward
       /\ Len(ev.mail) = (IF ev.pre = "await_sender" THEN 1 ELSE 0)

\* C13 as stated: no message of a user in AWAIT_SUBJECT, AWAIT_BODY or
\* AWAIT_SENDER moves the record back to INITIAL without a send attempt; the
\* only phase changes are those of the cycle, the last one with exactly one
\* request.
C13_NoCancel ==
    \A u \in Users : \A i \in Events(u) :
        LET ev == hist[u][i]
        IN  /\ ev.pre # ev.post => CycleStep(ev)
            /\ ev.pre \in AwaitPhases /\ ev.post = "initial" => Len(ev.mail) = 1

\* C13 amended: the start command is the one cancel: a message that is
\* /start once trimmed moves a record in AWAIT_SUBJECT, AWAIT_BODY or
\* AWAIT_SENDER back to INITIAL with no request; every other message of a
\* user in these phases moves the record forward, and the only phase
\* changes besides the cancel are INITIAL -> AWAIT_SUBJECT -> AWAIT_BODY ->
\* AWAIT_SENDER -> INITIAL, the last one with exactly one request.
C13_CancelOnlyByStart ==
    \A u \in Users : \A i \in Events(u) :
        LET ev == hist[u][i]
        IN  IF IsStartCommand(ev.text)
            THEN ev.post = "initial" /\ ev.mail = <<>>
            ELSE /\ ev.pre # ev.post => CycleStep(ev)
                 /\ ev.pre \in AwaitPhases => ev.pre # ev.post
                 /\ ev.post = "initial" /\ ev.pre \in AwaitPhases
                        => ev.pre = "await_sender" /\ Len(ev.mail) = 1

\* a user has sent a letter and has cancelled another with /start after
\* giving the body
C13_Witness ==
    \E u \in Users : \E i, j \in Events(u) :
        /\ hist[u][i].pre = "await_sender" /\ Len(hist[u][i].mail) = 1
        /\ hist[u][i].post = "initial"
        /\ hist[u][j].pre = "await_sender" /\ IsStartCommand(hist[u][j].text)
        /\ hist[u][j].post = "initial"

----------------------------------------------------------------------------
(* The subject and body steps *)

\* this step handles a message of u, and the event it adds
Handles(u) == Len(hist'[u]) = Len(hist[u]) + 1
NewEv(u) == hist'[u][Len(hist'[u])]

\* the record of u goes from AWAIT_SUBJECT to AWAIT_BODY with subject s, or
\* from AWAIT_BODY to AWAIT_SENDER with body b, nothing else of it changes,
\* and one chat message and no request go out
SubjectStep(u, s) ==
    /\ states'[u] = [states[u] EXCEPT !.Subject = s, !.State = "await_body"]
    /\ NewEv(u).chat = <<NewMessage(NewEv(u).chatID, AskBodyText, NoMarkup)>>
    /\ NewEv(u).mail = <<>>
    /\ pc' = "recv"

BodyStep(u, b) ==
    /\ states'[u] = [states[u] EXCEPT !.Body = b, !.State = "await_sender"]
    /\ NewEv(u).chat = <<NewMessage(NewEv(u).chatID, AskSenderText, NoMarkup)>>
    /\ NewEv(u).mail = <<>>
    /\ pc' = "recv"

\* C14 as stated: in AWAIT_SUBJECT any text, the label included, becomes
\* the subject as received and the phase becomes AWAIT_BODY, body and
\* senderName unchanged; in AWAIT_BODY any text becomes the body as received
\* and the phase becomes AWAIT_SENDER, subject and senderName unchanged;
\* neither step posts a request.
C14_AnyTextStored ==
    [][ \A u \in Users : Handles(u) =>
          /\ states[u].State = "await_subject" => SubjectStep(u, NewEv(u).text)
          /\ states[u].State = "await_body" => BodyStep(u, NewEv(u).text) ]_vars

\* C14 amended: in AWAIT_SUBJECT any text that is not /start once trimmed,
\* the label included, sets the subject to the trimmed text and the phase to
\* AWAIT_BODY and leaves body and senderName unchanged; in AWAIT_BODY any
\* such text sets the body to the trimmed text and the phase to
\* AWAIT_SENDER and leaves subject and senderName unchanged; neither step
\* posts a request.
C14_TrimmedTextStored ==
    [][ \A u \in Users : Handles(u) /\ ~IsStartCommand(NewEv(u).text) =>
          /\ states[u].State = "await_subject"
                => SubjectStep(u, TrimSpace(NewEv(u).text))
          /\ states[u].State = "await_body"
                => BodyStep(u, TrimSpace(NewEv(u).text)) ]_vars

\* in a second cycle, with the sender name of the first letter still in the
\* record, the label has been given as the subject and a padded text as the
\* body
C14_Witness ==
    \E u \in Users :
        /\ pc = "recv" /\ last = u
        /\ states[u].State = "await_sender"
        /\ states[u].Subject = NEW_LETTER_BUTTON_TEXT
        /\ LastEv.text = RawBPadded
        /\ states[u].Body = TrimSpace(RawBPadded)
        /\ states[u].SenderName # <<>>

----------------------------------------------------------------------------
(* Fields of the current cycle *)

\* the send attempt of u is under way: the sender name is taken, the loop is
\* in the bot.Send of the interim message or in the call of the provider
InFlight(u) == pc \in {"interim", "mailer"} /\ last = u

\* event k of u is the subject (the body) given in a cycle
SubjectGiven(u, k) ==
    hist[u][k].pre = "await_subject" /\ hist[u][k].post = "await_body"
BodyGiven(u, k) ==
    hist[u][k].pre = "await_body" /\ hist[u][k].post = "await_sender"

\* events p, p+1, .. of u are the current cycle up to its k-th text: the
\* label accepted in INITIAL at p, then the subject, then the body
CycleFrom(u, p, k) ==
    /\ p >= 1
    /\ AcceptedPress(u, p)
    /\ k >= 1 => SubjectGiven(u, p + 1)
    /\ k >= 2 => BodyGiven(u, p + 2)
    /\ k >= 3 => hist[u][p + 3].pre = "await_sender"

\* C15: a record in AWAIT_BODY holds the subject given in the current cycle,
\* a record in AWAIT_SENDER the subject and the body given in the current
\* cycle, and every request comes after the subject, the body and the sender
\* name of the current cycle of that user have been given, and carries
\* them.
C15_FieldsOfCurrentCycle ==
    \A u \in Users :
        LET n == Len(hist[u])
            r == states[u]
        IN  /\ r.State = "await_body" =>
                /\ CycleFrom(u, n - 1, 1)
                /\ r.Subject = TrimSpace(hist[u][n].text)
            /\ r.State = "await_sender" /\ ~InFlight(u) =>
                /\ CycleFrom(u, n - 2, 2)
                /\ r.Subject = TrimSpace(hist[u][n - 1].text)
                /\ r.Body = TrimSpace(hist[u][n].text)
            /\ InFlight(u) =>
                /\ r.State = "await_sender"
                /\ pc = "mailer" <=> hist[u][n].mail # <<>>
                /\ r.Subject = TrimSpace(hist[u][n - 2].text)
                /\ r.Body = TrimSpace(hist[u][n - 1].text)
                /\ r.SenderName = TrimSpace(hist[u][n].text)
            /\ \A j \in 1..n :
                  hist[u][j].mail # <<>> =>
                      /\ CycleFrom(u, j - 3, 3)
                      /\ hist[u][j].mail =
                            <<Letter(TrimSpace(hist[u][j - 2].text),
                                     TrimSpace(hist[u][j - 1].text),
                                     TrimSpace(hist[u][j].text))>>

\* a user who has sent one letter is in a second cycle, has given a subject
\* and a body that differ from those of the first letter, and is to name the
\* sender
C15_Witness ==
    \E u \in Users : \E i \in Sends(u) :
        /\ states[u].State = "await_sender"
        /\ ~InFlight(u)
        /\ states[u].Subject # hist[u][i].mail[1].subject
        /\ states[u].Body # hist[u][i].mail[1].body

----------------------------------------------------------------------------
(* Two users in the middle of their cycles *)

\* number of updates taken from the updates channel, for SpecBoth
MaxBothUpdates == 6

\* both users have sent /start before: each has a fresh record in INITIAL
InitBoth ==
    /\ states = [u \in Users |-> UserState("initial")]
    /\ pc = "recv"
    /\ last = NoUser
    /\ hist = [u \in Users |-> <<>>]
    /\ left = MaxBothUpdates
    /\ updates = NotFollowed

SpecBoth == InitBoth /\ [][NextTwoUsers]_vars

----------------------------------------------------------------------------
(* One update at a time *)

\* number of updates that arrive in a run, for SpecQueue
MaxQueueUpdates == 4

\* a record in AWAIT_SENDER: the label has been pressed, a subject and a body
\* given
AwaitingSender ==
    [State |-> "await_sender", Subject |-> NEW_LETTER_BUTTON_TEXT,
     Body |-> TrimSpace(RawBPadded), SenderName |-> <<>>]

\* both users are to name the sender next; the channel is empty
InitQueue ==
    /\ states = [u \in Users |-> AwaitingSender]
    /\ pc = "recv"
    /\ last = NoUser
    /\ hist = [u \in Users |-> <<>>]
    /\ left = MaxQueueUpdates
    /\ updates = Following(<<>>)

\* the update_id of the update that arrives next
NextUpdateID == MaxQueueUpdates - left + Len(updates.waiting) + 1

\* bot.GetUpdatesChan: its goroutine puts the updates it gets from Telegram
\* into the channel, one after the other, whatever the loop is doing
Arrive(upd) ==
    /\ Len(updates.waiting) < left
    /\ updates' = Following(Append(updates.waiting, upd))
    /\ UNCHANGED <<states, pc, last, hist, left>>

NextQueue ==
    \/ \E u \in Users, raw \in CycleTexts : Arrive(Update(NextUpdateID, u, PrivateChat(u), raw))
    \/ Arrive(NoMessage(NextUpdateID))
    \/ IgnoreUpdate
    \/ \E u \in Users, raw \in CycleTexts : HandleStart(u, PrivateChat(u), raw)
    \/ \E u \in Users, raw \in CycleTexts : HandleStray(u, PrivateChat(u), raw)
    \/ \E u \in Users, raw \in CycleTexts : HandleNewLetter(u, PrivateChat(u), raw)
    \/ \E u \in Users, raw \in CycleTexts : HandleSubject(u, PrivateChat(u), raw)
    \/ \E u \in Users, raw \in CycleTexts : HandleBody(u, PrivateChat(u), raw)
    \/ \E u \in Users, raw \in CycleTexts : HandleSender(u, PrivateChat(u), raw)
    \/ SenderPost
    \/ \E reply \in CycleReplies : MailerReturn(reply)

SpecQueue == InitQueue /\ [][NextQueue]_vars

\* the requests posted and not yet answered
InFlightEvents ==
    { <<u, i>> \in Users \X (1..MaxCycleUpdates + MaxBothUpdates) :
        /\ i <= Len(hist[u])
        /\ hist[u][i].mail # <<>>
        /\ hist[u][i].reply = NoReply }

\* the loop takes an update in this step
Takes == left' = left - 1

\* the update taken is the one that arrived first of those that wait (the
\* smallest update_id), the others go on waiting in their order, and what is
\* handled is that update: its user and its text, or nothing when it has no
\* message
InArrivalOrder ==
    LET w == updates.waiting
        first == CHOOSE x \in { w[k] : k \in 1..Len(w) } :
                    \A k \in 1..Len(w) : x.id <= w[k].id
    IN  /\ w # <<>>
        /\ \A k \in 1..Len(w) - 1 : w[k].id < w[k + 1].id
        /\ Len(updates'.waiting) >= Len(w) - 1
        /\ SubSeq(updates'.waiting, 1, Len(w) - 1) = SubSeq(w, 2, Len(w))
        /\ IF first.message
           THEN /\ Handles(first.from)
                /\ NewEv(first.from).text = first.text
                /\ \A u \in Users \ {first.from} : hist'[u] = hist[u]
           ELSE hist' = hist

\* C16: updates are handled one at a time, in arrival order.  At every
\* moment at most one request is in flight over all users (so no user has
\* two), and it is the request of the message in hand; while it is in
\* flight, and before it while the interim message is being sent, updates
\* may arrive but none, of any user, is handled and no record is changed:
\* the steps of the loop are the posting of the request and the return of
\* the call, which ends the send attempt of that user and touches no other
\* record.
C16_OneAtATime ==
    [][ /\ Cardinality(InFlightEvents') <= 1
        /\ InFlightEvents' = (IF pc' = "mailer"
                              THEN {<<last', Len(hist'[last'])>>} ELSE {})
        /\ Takes => InArrivalOrder
        /\ pc \in {"interim", "mailer"} =>
              /\ left' = left
              /\ \A u \in Users : Len(hist'[u]) = Len(hist[u])
              /\ \A u \in Users \ {last} : states'[u] = states[u]
              /\ \/ /\ pc = "mailer"
                    /\ pc' = "recv"
                    /\ states'[last] = [states[last] EXCEPT !.State = "initial"]
                    /\ updates' = updates
                 \/ /\ pc = "interim"
                    /\ pc' = "mailer"
                    /\ states' = states
                    /\ updates' = updates
                 \/ /\ pc' = pc
                    /\ states' = states
                    /\ hist' = hist
                    /\ Len(updates'.waiting) = Len(updates.waiting) + 1 ]_vars

\* a request of one user is in flight after a send attempt of the other user
\* has ended, and two updates wait in the channel, the first of them a
\* message of the user whose request is in flight
C16_Witness ==
    /\ pc = "mailer"
    /\ Len(updates.waiting) = 2
    /\ Head(updates.waiting).message
    /\ Head(updates.waiting).from = last
    /\ \E w \in Users \ {last} : \E i \in 1..Len(hist[w]) :
          /\ hist[w][i].mail # <<>>
          /\ hist[w][i].reply # NoReply

----------------------------------------------------------------------------
(* Isolation of the users *)

\* every request of u carries the texts u gave in that cycle, trimmed, and
\* the configured key and addresses
OwnFields(u) ==
    \A j \in 1..Len(hist[u]) :
        hist[u][j].mail # <<>> =>
            /\ j > 3
            /\ hist[u][j].mail = <<Letter(TrimSpace(hist[u][j - 2].text),
                                          TrimSpace(hist[u][j - 1].text),
                                          TrimSpace(hist[u][j].text))>>

\* C18: a step that handles a message of user a (the start command, a stray
\* text, the label, a subject, a body or a sender text, the return of the
\* send attempt included) leaves the record of every other user b as it
\* was and adds nothing to what b has seen, and every request triggered by a
\* carries only the fields a gave.
C18_Isolation ==
    [][ \A a \in Users :
          /\ hist'[a] # hist[a] =>
                \A b \in Users \ {a} :
                    states'[b] = states[b] /\ hist'[b] = hist[b]
          /\ OwnFields(a)' ]_vars

\* one user has sent a letter while the other, in the middle of a cycle,
\* holds a subject other than the one sent
C18_Witness ==
    \E a \in Users : \E i \in Sends(a) : \E b \in Users \ {a} :
        /\ states[b].State \in {"await_body", "await_sender"}
        /\ states[b].Subject # hist[a][i].mail[1].subject
        /\ states[b].Subject # <<>>

----------------------------------------------------------------------------
(* The await_sender case, statement by statement *)

\* number of updates taken from the updates channel, for SpecSteps
MaxStepUpdates == 6

InitSteps ==
    /\ states = [u \in Users |-> IF u = 1 THEN UserState("initial") ELSE NoState]
    /\ pc = "recv"
    /\ last = NoUser
    /\ hist = [u \in Users |-> <<>>]
    /\ left = MaxStepUpdates
    /\ updates = NotFollowed

\* state.SenderName = text
SenderStore(u, c, raw) ==
    /\ pc = "recv"
    /\ TrimSpace(raw) # START_COMMAND
    /\ Exists(u)
    /\ states[u].State = "await_sender"
    /\ states' = [states EXCEPT ![u].SenderName = TrimSpace(raw)]
    /\ Observe(u, c, raw, <<>>, <<>>)
    /\ pc' = "stored"

\* bot.Send(tgbotapi.NewMessage(chatID, "Otpravljaju pis'mo...")), the
\* whole statement: the call has returned
SenderInterim ==
    /\ pc = "stored"
    /\ hist' = [hist EXCEPT ![last][Len(hist[last])].chat =
                  Append(@, NewMessage(hist[last][Len(hist[last])].chatID,
                                       SendingText, NoMarkup))]
    /\ pc' = "interim"
    /\ UNCHANGED <<states, last, left, updates>>

\* mutant of SenderOutcome: an error of the call ends the process
SenderOutcomeFatalOnError(reply) ==
    /\ pc = "mailer"
    /\ hist' = [hist EXCEPT ![last][Len(hist[last])].reply = reply]
    /\ pc' = IF SendEmailViaUnisender(reply).err # Nil THEN "stopped" ELSE "returned"
    /\ UNCHANGED <<states, last, left, updates>>

\* result, err := SendEmailViaUnisender(...): the call returns
SenderOutcome(reply) ==
    /\ pc = "mailer"
    /\ hist' = [hist EXCEPT ![last][Len(hist[last])].reply = reply]
    /\ pc' = "returned"
    /\ UNCHANGED <<states, last, left, updates>>

\* state.State = "initial"
SenderReset ==
    /\ pc = "returned"
    /\ states' = [states EXCEPT ![last].State = "initial"]
    /\ hist' = [hist EXCEPT ![last][Len(hist[last])].post = "initial"]
    /\ pc' = "reset"
    /\ UNCHANGED <<last, left, updates>>

\* msg := tgbotapi.NewMessage(chatID, finalMsgText + ...); bot.Send(msg):
\* the call has returned
SenderFinal ==
    /\ pc = "reset"
    /\ LET ret == SendEmailViaUnisender(LastEv.reply)
           msg == NewMessage(LastEv.chatID, FinalMsgText(ret) \o <<AnotherLetterSuffix>>,
                             InitialKeyboard)
       IN  hist' = [hist EXCEPT ![last][Len(hist[last])].chat = Append(@, msg)]
    /\ pc' = "recv"
    /\ UNCHANGED <<states, last, left, updates>>

NextSteps ==
    \/ IgnoreUpdate
    \/ \E raw \in CycleTexts : HandleStart(1, PrivateChat(1), raw)
    \/ \E raw \in CycleTexts : HandleStray(1, PrivateChat(1), raw)
    \/ \E raw \in CycleTexts : HandleNewLetter(1, PrivateChat(1), raw)
    \/ \E raw \in CycleTexts : HandleSubject(1, PrivateChat(1), raw)
    \/ \E raw \in CycleTexts : HandleBody(1, PrivateChat(1), raw)
    \/ \E raw \in CycleTexts : SenderStore(1, PrivateChat(1), raw)
    \/ SenderInterim
    \/ SenderPost
    \/ \E reply \in CycleReplies : SenderOutcome(reply)
    \/ SenderReset
    \/ SenderFinal

SpecSteps == InitSteps /\ [][NextSteps]_vars

\* what has happened at a position inside the await_sender case: the sender name is stored (s), the
\* interim message is out (i), the request is posted (p), the outcome is in
\* (o), the phase is INITIAL (r), the final message is out (f)
Progress(s, i, p, o, r, f) ==
    LET u == last
        ev == LastEv
    IN  /\ s <=> states[u].SenderName = TrimSpace(ev.text)
        /\ i <=> (ev.chat # <<>> /\ ev.chat[1] = NewMessage(ev.chatID, SendingText, NoMarkup))
        /\ ~i <=> ev.chat = <<>>
        /\ p <=> ev.mail = <<Letter(states[u].Subject, states[u].Body,
                                    TrimSpace(ev.text))>>
        /\ ~p <=> ev.mail = <<>>
        /\ o <=> ev.reply # NoReply
        /\ r <=> states[u].State = "initial"
        /\ ~r <=> states[u].State = "await_sender"
        /\ f <=> (Len(ev.chat) = 2 /\ ev.chat[2].markup = InitialKeyboard)
        /\ ~f <=> Len(ev.chat) < 2

\* C17: in the handling of a message in AWAIT_SENDER the sender name is
\* stored, then the interim message is emitted, then the request is issued
\* and its outcome received, then the phase is set to INITIAL, and only then
\* the final message is emitted: at each point of the handling exactly the
\* earlier effects have happened, and the final message is never out before
\* the mailer has returned.
C17_SendOrder ==
    /\ pc = "stored" => Progress(TRUE, FALSE, FALSE, FALSE, FALSE, FALSE)
    /\ pc = "interim" => Progress(TRUE, TRUE, FALSE, FALSE, FALSE, FALSE)
    /\ pc = "mailer" => Progress(TRUE, TRUE, TRUE, FALSE, FALSE, FALSE)
    /\ pc = "returned" => Progress(TRUE, TRUE, TRUE, TRUE, FALSE, FALSE)
    /\ pc = "reset" => Progress(TRUE, TRUE, TRUE, TRUE, TRUE, FALSE)
    /\ Done /\ LastEv.mail # <<>> => Progress(TRUE, TRUE, TRUE, TRUE, TRUE, TRUE)
    /\ \A u \in Users : \A j \in 1..Len(hist[u]) :
          Len(hist[u][j].chat) = 2 => hist[u][j].reply # NoReply

\* the outcome of a send attempt is in, a provider error, and the phase is
\* not yet reset nor the final message sent
C17_Witness ==
    /\ pc = "returned"
    /\ LastEv.reply = RespError
    /\ Len(LastEv.chat) = 1

----------------------------------------------------------------------------
(* Responsiveness of the update loop *)

\* number of updates waiting in the updates channel, for SpecLive
MaxLiveUpdates == 5

\* two users, user 1 with the fresh record that /start leaves
InitLive ==
    /\ states = [u \in Users |-> IF u = 1 THEN UserState("initial") ELSE NoState]
    /\ pc = "recv"
    /\ last = NoUser
    /\ hist = [u \in Users |-> <<>>]
    /\ left = MaxLiveUpdates
    /\ updates = NotFollowed

\* the next update is taken and handled up to the first call that leaves the
\* process: bot.Send (lines 204, 217, 228, 233, 238, 242)
Receive ==
    \/ IgnoreUpdate
    \/ \E u \in Users, raw \in CycleTexts : StartBranch(u, PrivateChat(u), raw) /\ pc' = "replying"
    \/ \E u \in Users, raw \in CycleTexts : StrayBranch(u, PrivateChat(u), raw) /\ pc' = "replying"
    \/ \E u \in Users, raw \in CycleTexts : InitialCase(u, PrivateChat(u), raw) /\ pc' = "replying"
    \/ \E u \in Users, raw \in CycleTexts : AwaitSubjectCase(u, PrivateChat(u), raw) /\ pc' = "replying"
    \/ \E u \in Users, raw \in CycleTexts : AwaitBodyCase(u, PrivateChat(u), raw) /\ pc' = "replying"
    \/ \E u \in Users, raw \in CycleTexts : SenderStore(u, PrivateChat(u), raw)

\* bot.Send of lines 204, 217, 228, 233, 238 returns; its result is dropped
ReplySent ==
    /\ pc = "replying"
    /\ pc' = "recv"
    /\ UNCHANGED <<states, last, hist, left, updates>>

\* http.PostForm gives its result
MailerReturns == \E reply \in CycleReplies : SenderOutcome(reply)

NextLive ==
    \/ Receive
    \/ ReplySent
    \/ SenderInterim
    \/ SenderPost
    \/ MailerReturns
    \/ SenderReset
    \/ SenderFinal

\* The loop is the one goroutine of main: it runs its own statements, and
\* takes an update that waits in the channel, whenever it is not inside a
\* call.  The calls that leave the process are bot.Send, on the http.Client
\* that tgbotapi.NewBotAPI makes, and http.PostForm, on http.DefaultClient;
\* neither client sets a timeout, so nothing in the program makes such a call
\* return: ReplySent, SenderInterim, MailerReturns and SenderFinal carry no
\* fairness.
SpecLive ==
    /\ InitLive
    /\ [][NextLive]_vars
    /\ WF_vars(Receive)
    /\ WF_vars(SenderPost)
    /\ WF_vars(SenderReset)

\* the positions at which the loop is in a call of bot.Send or http.PostForm
InCall == {"replying", "stored", "mailer", "reset"}

\* the send attempt of u has been answered to the end
Answered(u) ==
    /\ pc = "recv"
    /\ last = u
    /\ states[u].State = "initial"
    /\ Len(LastEv.chat) = 2
    /\ LastEv.chat[2].markup = InitialKeyboard
    /\ LastEv.reply # NoReply

\* a message taken in AWAIT_SENDER is answered, and every update waiting in
\* the channel is taken and handled to the end of the loop body
Responsive ==
    /\ \A u \in Users : [](pc = "stored" /\ last = u => <>Answered(u))
    /\ <>(left = 0 /\ pc = "recv")

\* C12 as stated: whenever a message is handled in AWAIT_SENDER, the user's
\* phase eventually becomes INITIAL and the final message is eventually
\* emitted, and every update received afterwards is eventually handled.
C12_AlwaysResponsive == Responsive

\* C12 amended: provided every call of bot.Send and of http.PostForm
\* returns, whenever a message is handled in AWAIT_SENDER the user's phase
\* eventually becomes INITIAL and the final message is eventually emitted,
\* whatever the outcome, and every update received afterwards is eventually
\* handled.
C12_ResponsiveIfCallsReturn == []<>(pc \notin InCall) => Responsive

\* a send attempt has failed on the connection, and after it a message of
\* the other user has been handled
C12_Witness ==
    \E u \in Users : \E i \in Sends(u) :
        /\ hist[u][i].reply = ConnFail
        /\ states[u].State = "initial"
        /\ pc = "recv"
        /\ last \in Users \ {u}

----------------------------------------------------------------------------
(* The start button *)

\* the chat message sent last in reply to u
LastChat(u) ==
    LET ev == hist[u][Len(hist[u])]
    IN  ev.chat[Len(ev.chat)]

\* the directive in force after the chat messages c: the last one that is
\* not "none", or d when there is none
RECURSIVE DirectiveOf(_, _)
DirectiveOf(c, d) ==
    IF c = <<>> THEN d
    ELSE IF c[Len(c)].markup # NoMarkup THEN c[Len(c)].markup
    ELSE DirectiveOf(SubSeq(c, 1, Len(c) - 1), d)

\* the directive in force for u after its first n messages were handled
RECURSIVE Directive(_, _)
Directive(u, n) ==
    IF n = 0 THEN NoMarkup
    ELSE DirectiveOf(hist[u][n].chat, Directive(u, n - 1))

\* the chat that u has written in last
ChatOf(u) == hist[u][Len(hist[u])].chatID

\* no other user has written in the chat of u
SoleWriter(u) ==
    \A v \in Users \ {u} : \A k \in 1..Len(hist[v]) :
        hist[v][k].chatID # ChatOf(u)

====
